---- MODULE Spec2Model ----
(***************************************************************************)
(* The scripting engine of unquantified (web/scripts/engine.js) and the    *)
(* part of the web UI that drives it (web/scripts/web-ui.js): the value    *)
(* types, the statement evaluator ScriptingEngine.run, the call handlers   *)
(* candle / plot / correlation / backtest with their argument validation,  *)
(* and the Enter key handler that starts a run.                            *)
(***************************************************************************)
EXTENDS Integers, Sequences, FiniteSets, TLC

VARIABLES
    variables,      \* ScriptingEngine.variables: own properties, name -> value
    runs,           \* one record per call of ScriptingEngine.run, in call order
    active,         \* the run whose synchronous code is executing, 0 when the event loop is idle
    editors,        \* the editors created so far: readOnly, cssReadOnly
    editor,         \* this.editor: index of the current editor
    history,        \* this.history
    historyIndex,   \* this.historyIndex: null or Js(i), i counted from 0
    enableHistory,  \* this.enableHistory
    storage,        \* localStorage item "unquantified"
    toasts,         \* number of error toasts shown
    command,        \* name of the handler a call statement dispatches to
    literal,        \* the time-frame literal or keyword of the call, if it has one
    callArguments,  \* the evaluated arguments of the call
    outcome         \* invoked: the handler ran; result: what it did

vars == <<variables, runs, active, editors, editor, history, historyIndex,
          enableHistory, storage, toasts, command, literal, callArguments, outcome>>

engineVars == <<variables, runs, active>>

uiVars == <<editors, editor, history, historyIndex, enableHistory, storage, toasts>>

callVars == <<command, literal, callArguments, outcome>>

-----------------------------------------------------------------------------
(* Bounds *)

MaxStmts == 2
MaxRuns == 2
MaxUiStmts == 2
MaxUiRuns == 2
MaxSessionRuns == 3
MaxRestartRuns == 2
MaxSettlingRuns == 2
MaxCopyRuns == 2
MaxArityArgs == 7
MaxTimeFrameLiteral == 1500
MaxLiteralLen == 4
MaxSeparated == 2
MaxBlock == 2

-----------------------------------------------------------------------------
(* Program constants *)

SECONDS_PER_DAY == 1440

KeywordFIRST == "first"
KeywordLAST == "last"
KeywordNOW == "now"
KeywordALL == "all"

-----------------------------------------------------------------------------
(* Value types: one record shape per class, tagged with the class name.   *)
(* The classes keep their payload in a field called value; here the field *)
(* is named after what it holds (number, boolean, time, minutes, symbol,  *)
(* symbols, string, parameters), so that records of different classes     *)
(* never have the same fields.                                            *)

Numeric(value) == [tag |-> "Numeric", number |-> value]

Bool(value) == [tag |-> "Bool", boolean |-> value]

\* value is a luxon DateTime, tagged like the classes of the engine with
\* date |-> <<y, m, d, h, mi, s>>, or a
\* special keyword [keyword |-> "first" | "last" | "now"]
TimeParameter(value) == [tag |-> "TimeParameter", time |-> value]

TimeFrame(value) == [tag |-> "TimeFrame", minutes |-> value]

Offset(offset, unit) == [tag |-> "Offset", offset |-> offset, unit |-> unit]

Symbol(value, separator) ==
    [tag |-> "Symbol", symbol |-> value, separator |-> separator]

SymbolArray(value) == [tag |-> "SymbolArray", symbols |-> value]

String(value) == [tag |-> "String", string |-> value]

Parameters(value) == [tag |-> "Parameters", parameters |-> value]

Variable(name) == [tag |-> "Variable", name |-> name]

Assignment(variable, value) ==
    [kind |-> "Assignment", name |-> variable, args |-> <<value>>]

Call(name, args) == [kind |-> "Call", name |-> name, args |-> args]

\* a line the grammar's Statement rule does not match
Garbage == [kind |-> "Garbage", name |-> "", args |-> <<>>]

\* JavaScript's undefined, and the function Object that every plain object
\* inherits as its "constructor" property
undefined == [tag |-> "undefined"]

ObjectConstructor == [tag |-> "Function", name |-> "Object"]

\* property names of Object.prototype that match the grammar's identifier rule
ObjectPrototypeNames == {"constructor"}

Keyword(string) == [keyword |-> string]

\* createDate: luxon.DateTime.fromObject of a year, a month and a day, a
\* DateTime at midnight
Date(y, m, d) == [tag |-> "DateTime", date |-> <<y, m, d, 0, 0, 0>>]

-----------------------------------------------------------------------------
(* JSON values handed to the backend *)

JsonNull == [json |-> "null"]

JsonNumber(value) == [json |-> "number", number |-> value]

JsonBoolean(value) == [json |-> "boolean", boolean |-> value]

JsonString(value) == [json |-> "string", string |-> value]

\* the text yyyy-MM-dd'T'HH:mm:ss, kept as its six calendar fields
JsonDateText(fields) == [json |-> "string", date |-> fields]

JsonArray(items) == [json |-> "array", items |-> items]

toFormat(dateTime) == JsonDateText(dateTime.date)

IsDateTime(value) == "date" \in DOMAIN value

TimeParameterJson(v) ==
    IF IsDateTime(v.time)
    THEN [date |-> toFormat(v.time), offset |-> JsonNull,
          offsetUnit |-> JsonNull, specialKeyword |-> JsonNull]
    ELSE [date |-> JsonNull, offset |-> JsonNull,
          offsetUnit |-> JsonNull, specialKeyword |-> JsonString(v.time.keyword)]

\* variant: the unit of the offset is left out
OffsetJsonWithoutUnit(v) ==
    [date |-> JsonNull, offset |-> JsonNumber(v.offset),
     offsetUnit |-> JsonNull, specialKeyword |-> JsonNull]

OffsetJson(v) ==
    [date |-> JsonNull, offset |-> JsonNumber(v.offset),
     offsetUnit |-> JsonString(v.unit), specialKeyword |-> JsonNull]

SymbolJson(v) ==
    IF v.symbol = KeywordALL THEN JsonArray(<<JsonString(v.symbol)>>)
    ELSE JsonString(v.symbol)

SymbolArrayJson(v) ==
    JsonArray([i \in DOMAIN v.symbols |-> SymbolJson(v.symbols[i])])

getJsonValue(v) ==
    CASE v.tag = "TimeParameter" -> TimeParameterJson(v)
      [] v.tag = "Offset" -> OffsetJson(v)
      [] v.tag = "Symbol" -> SymbolJson(v)
      [] v.tag = "SymbolArray" -> SymbolArrayJson(v)
      [] v.tag = "Numeric" -> JsonNumber(v.number)
      [] v.tag = "TimeFrame" -> JsonNumber(v.minutes)
      [] v.tag = "Bool" -> JsonBoolean(v.boolean)
      [] v.tag = "String" -> JsonString(v.string)
      [] v.tag = "Parameters" -> JsonArray(v.parameters)

-----------------------------------------------------------------------------
(* Argument validation (WebUi).  A validator yields the message of the     *)
(* error it throws, or NoError.                                            *)

NoError == ""

ArityError == "Invalid number of arguments"
SymbolTypeError == "Invalid symbol argument type"
SymbolArrayTypeError == "Encountered an invalid data type in a ticker array"
FromToError == "Invalid from/to parameter types"
TimeFrameError == "Invalid time frame specified"
StrategyTypeError == "Invalid strategy argument type"
ParametersTypeError == "Invalid parameters argument type"
TimeFrameTypeError == "Invalid time frame argument type"
\* getSymbols names a constant that is local to plot
InvalidSymbolReferenceError == "ReferenceError: invalidSymbol is not defined"

\* variant: only the upper limit is checked
validateArgumentCountUpperOnly(args, min, max) ==
    IF Len(args) > max THEN ArityError ELSE NoError

validateArgumentCount(args, min, max) ==
    IF Len(args) < min \/ Len(args) > max THEN ArityError ELSE NoError

validateSymbols(tickers) ==
    IF tickers.tag = "SymbolArray"
    THEN IF \E i \in DOMAIN tickers.symbols : tickers.symbols[i].tag # "Symbol"
         THEN SymbolArrayTypeError
         ELSE NoError
    ELSE IF tickers.tag # "Symbol" THEN SymbolTypeError ELSE NoError

\* variant: two offsets pass
validateFromToAnyTwo(from, to) ==
    LET count(tag) == (IF from.tag = tag THEN 1 ELSE 0) + (IF to.tag = tag THEN 1 ELSE 0)
    IN IF count("TimeParameter") + count("Offset") < 2 THEN FromToError ELSE NoError

validateFromTo(from, to) ==
    LET count(tag) == (IF from.tag = tag THEN 1 ELSE 0) + (IF to.tag = tag THEN 1 ELSE 0)
        dateTimeCount == count("TimeParameter")
        offsetCount == count("Offset")
    IN IF dateTimeCount + offsetCount < 2 \/ dateTimeCount = 0
       THEN FromToError
       ELSE NoError

\* every TimeFrame the engine builds holds an integer, so Number.isInteger
\* can only fail for a value that is not a TimeFrame's number
validateTimeFrame(timeFrame) ==
    IF \/ timeFrame.tag # "TimeFrame"
       \/ timeFrame.minutes < 1
       \/ timeFrame.minutes > SECONDS_PER_DAY
       \/ timeFrame.minutes \notin Int
    THEN TimeFrameError
    ELSE NoError

getSymbols(symbolArgument) ==
    IF symbolArgument.tag = "Symbol"
    THEN [error |-> NoError, value |-> JsonArray(<<getJsonValue(symbolArgument)>>)]
    ELSE IF symbolArgument.tag = "SymbolArray"
    THEN [error |-> validateSymbols(symbolArgument),
          value |-> getJsonValue(symbolArgument)]
    ELSE [error |-> InvalidSymbolReferenceError, value |-> JsonNull]

-----------------------------------------------------------------------------
(* Call handlers (WebUi).  A handler either throws before it awaits        *)
(* anything (error is the message) or sends one backend request.           *)

\* callArguments[i - 1] of the source
Arg(args, i) == IF i \in DOMAIN args THEN args[i] ELSE undefined

\* variant: a missing argument stays missing
OrDefaultMissing(a, b) == a

\* a || b: every value object is truthy; a missing argument and the number
\* 0 are not
OrDefault(a, b) == IF a = undefined \/ a = [tag |-> "number", number |-> 0] THEN b ELSE a

\* variant: the handler throws after it has sent a request
ThrownAfterRequest(error) == [error |-> error, url |-> "/history", request |-> JsonNull]

Thrown(error) == [error |-> error, url |-> "", request |-> JsonNull]

Sent(url, request) == [error |-> NoError, url |-> url, request |-> request]

plot(args, isCandlestick) ==
    LET arity == validateArgumentCount(args, 1, 4)
        symbolArgument == Arg(args, 1)
        from == OrDefault(Arg(args, 2), TimeParameter(Keyword(KeywordFIRST)))
        to == OrDefault(Arg(args, 3), TimeParameter(Keyword(KeywordLAST)))
        timeFrame == OrDefault(Arg(args, 4), TimeFrame(SECONDS_PER_DAY))
        symbols == IF isCandlestick
                   THEN IF symbolArgument.tag # "Symbol"
                        THEN [error |-> SymbolTypeError, value |-> JsonNull]
                        ELSE [error |-> NoError,
                              value |-> JsonArray(<<getJsonValue(symbolArgument)>>)]
                   ELSE getSymbols(symbolArgument)
    IN IF arity # NoError THEN Thrown(arity)
       ELSE IF symbols.error # NoError THEN Thrown(symbols.error)
       ELSE IF validateFromTo(from, to) # NoError THEN Thrown(validateFromTo(from, to))
       ELSE IF validateTimeFrame(timeFrame) # NoError
       THEN Thrown(validateTimeFrame(timeFrame))
       ELSE Sent("/history",
                 [symbols |-> symbols.value, from |-> getJsonValue(from),
                  to |-> getJsonValue(to), timeFrame |-> getJsonValue(timeFrame)])

plotCandlestick(args) == plot(args, TRUE)

plotLine(args) == plot(args, FALSE)

correlation(args) ==
    LET arity == validateArgumentCount(args, 1, 3)
        symbols == Arg(args, 1)
        from == OrDefault(Arg(args, 2), TimeParameter(Keyword(KeywordFIRST)))
        to == OrDefault(Arg(args, 3), TimeParameter(Keyword(KeywordLAST)))
    IN IF arity # NoError THEN Thrown(arity)
       ELSE IF validateSymbols(symbols) # NoError THEN Thrown(validateSymbols(symbols))
       ELSE IF validateFromTo(from, to) # NoError THEN Thrown(validateFromTo(from, to))
       ELSE Sent("/correlation",
                 [symbols |-> getJsonValue(symbols), from |-> getJsonValue(from),
                  to |-> getJsonValue(to)])

backtest(args) ==
    LET arity == validateArgumentCount(args, 4, 6)
        strategy == Arg(args, 1)
        symbolArgument == Arg(args, 2)
        from == Arg(args, 3)
        to == Arg(args, 4)
        parameters == OrDefault(Arg(args, 5), Parameters(<<>>))
        timeFrame == OrDefault(Arg(args, 6), String("daily"))
        symbols == getSymbols(symbolArgument)
    IN IF arity # NoError THEN Thrown(arity)
       ELSE IF strategy.tag # "String" THEN Thrown(StrategyTypeError)
       ELSE IF validateSymbols(symbolArgument) # NoError
       THEN Thrown(validateSymbols(symbolArgument))
       ELSE IF validateFromTo(from, to) # NoError THEN Thrown(validateFromTo(from, to))
       ELSE IF parameters.tag # "Parameters" THEN Thrown(ParametersTypeError)
       ELSE IF timeFrame.tag # "String" THEN Thrown(TimeFrameTypeError)
       ELSE IF symbols.error # NoError THEN Thrown(symbols.error)
       ELSE Sent("/backtest",
                 [strategy |-> getJsonValue(strategy), symbols |-> symbols.value,
                  from |-> getJsonValue(from), to |-> getJsonValue(to),
                  parameters |-> getJsonValue(parameters),
                  timeFrame |-> getJsonValue(timeFrame)])

\* the handler table built in WebUi.initialize
HandlerNames == {"candle", "plot", "correlation", "backtest"}

Handler(name, args) ==
    CASE name = "candle" -> plotCandlestick(args)
      [] name = "plot" -> plotLine(args)
      [] name = "correlation" -> correlation(args)
      [] name = "backtest" -> backtest(args)


-----------------------------------------------------------------------------
(* Semantic actions of the grammar that the call contract depends on *)

\* numeric = (numericPrefix | "0") ("." digit+)?: parseFloat of the text, a
\* number and not an object of a value class
numeric(value) == [tag |-> "number", number |-> value]

\* timeFrame = nonZeroDigit digit* ("m" | "h")
timeFrame(n, unit) == TimeFrame(IF unit = "h" THEN n * 60 ELSE n)

keyword(string) ==
    CASE string = "true" -> Bool(TRUE)
      [] string = "false" -> Bool(FALSE)
      [] string \in {KeywordFIRST, KeywordLAST, KeywordNOW} -> TimeParameter(Keyword(string))
      [] string = "daily" -> TimeFrame(SECONDS_PER_DAY)
      [] string = KeywordALL -> Symbol(string, FALSE)

\* variant: the flag goes to the element that the separator "|" follows
SymbolArrayLiteralFlagBefore(first, others) ==
    SymbolArray([i \in 1..(Len(others) + 1) |->
                    Symbol(IF i = 1 THEN first ELSE others[i - 1][2],
                           i <= Len(others) /\ others[i][1] = "|")])

\* SymbolArray = "[" symbol SeparatedSymbol* "]": the first element keeps
\* separator = false, a later one gets the flag when its separator is "|"
SymbolArrayLiteral(first, others) ==
    SymbolArray(<<Symbol(first, FALSE)>> \o
                [i \in DOMAIN others |-> Symbol(others[i][2], others[i][1] = "|")])

\* null, and a non-null primitive in a field that may hold null
null == [tag |-> "null"]

Js(value) == [js |-> value]

Parameter(name, value, limit, increment, values, boolValue, stringValue) ==
    [tag |-> "Parameter", name |-> name, value |-> value, limit |-> limit,
     increment |-> increment, values |-> values, boolValue |-> boolValue,
     stringValue |-> stringValue]

-----------------------------------------------------------------------------
(* Literals.  The text of a short literal is a sequence of characters, and *)
(* the rules of the grammar are matched against it as a PEG does: a rule   *)
(* yields the number of characters it consumes from the start of the text, *)
(* 0 when it does not match.                                               *)

upper == {"E"}
nonZeroDigit == {"1", "5"}
digit == nonZeroDigit \cup {"0"}

\* the characters of the literal texts
LiteralChars == digit \cup upper \cup {"-", "."}

\* the length of the longest prefix of text made of characters of set
Prefix(text, set) ==
    LET stops == {i \in 1..Len(text) : text[i] \notin set}
    IN IF stops = {} THEN Len(text)
       ELSE (CHOOSE i \in stops : \A j \in stops : i <= j) - 1

Drop(text, n) == SubSeq(text, n + 1, Len(text))

\* symbol = (upper | nonZeroDigit) (upper | nonZeroDigit)+
symbolRule(text) ==
    LET n == Prefix(text, upper \cup nonZeroDigit)
    IN IF n >= 2 THEN n ELSE 0

\* numericPrefix = "-"? nonZeroDigit digit*
numericPrefixRule(text) ==
    LET sign == IF text # <<>> /\ text[1] = "-" THEN 1 ELSE 0
        rest == Drop(text, sign)
    IN IF rest # <<>> /\ rest[1] \in nonZeroDigit
       THEN sign + Prefix(rest, digit)
       ELSE 0

\* (numericPrefix | "0"): the text of the first child of numeric
numericFirstRule(text) ==
    IF numericPrefixRule(text) > 0 THEN numericPrefixRule(text)
    ELSE IF text # <<>> /\ text[1] = "0" THEN 1
    ELSE 0

\* ("." digit+)?: the number of digits of the fraction, 0 without one
fractionalRule(text) ==
    IF text # <<>> /\ text[1] = "." THEN Prefix(Drop(text, 1), digit) ELSE 0

\* numeric = (numericPrefix | "0") ("." digit+)?
numericRule(text) ==
    LET first == numericFirstRule(text)
        fractional == fractionalRule(Drop(text, first))
    IN IF first = 0 THEN 0
       ELSE first + (IF fractional > 0 THEN 1 + fractional ELSE 0)

DigitValue(c) == CASE c = "0" -> 0 [] c = "1" -> 1 [] c = "5" -> 5

\* parseFloat of a text of an optional minus sign and digits
RECURSIVE Digits(_)
Digits(text) ==
    IF text = <<>> THEN 0
    ELSE 10 * Digits(SubSeq(text, 1, Len(text) - 1)) + DigitValue(text[Len(text)])

parseFloat(text) ==
    IF text[1] = "-" THEN 0 - Digits(Drop(text, 1)) ELSE Digits(text)

\* the semantic action of numeric on a text the rule matches in full:
\* parseFloat(first.sourceString + fractional.sourceString), where
\* fractional is the digit+ after the "."
numericAction(text) ==
    LET first == numericFirstRule(text)
        fractional == fractionalRule(Drop(text, first))
    IN numeric(parseFloat(SubSeq(text, 1, first)
                          \o SubSeq(text, first + 2, first + 1 + fractional)))

\* the semantic action of symbol
symbolAction(text) == Symbol(text, FALSE)

ParseError == "Failed to parse script"

\* $x = text, up to the value: the alternatives of Value in their order. Of
\* variable | dateTime | date | offset | timeFrame | symbol | numeric |
\* keyword | stringValue | SymbolArray | Parameters only symbol and numeric
\* match a text of up to MaxLiteralLen of the LiteralChars (a date takes 10
\* characters, the others a character that is not among them). The first
\* alternative that matches is taken, and the statement ends after it.
ValueOfText(text) ==
    IF symbolRule(text) > 0
    THEN IF symbolRule(text) = Len(text)
         THEN [error |-> NoError, value |-> symbolAction(text)]
         ELSE [error |-> ParseError, value |-> undefined]
    ELSE IF numericRule(text) > 0 /\ numericRule(text) = Len(text)
    THEN [error |-> NoError, value |-> numericAction(text)]
    ELSE [error |-> ParseError, value |-> undefined]

\* the texts of the literals
LiteralTexts == UNION {[1..n -> LiteralChars] : n \in 1..MaxLiteralLen}

\* a date-time literal YYYY-MM-DD HH:MM[:SS] is kept as the numbers its
\* digits write; seconds is <<>> when the literal has none
DateTimeLiterals ==
    [year : {2024}, month : {1, 12}, day : {1, 31}, hour : {0, 9, 23},
     minute : {0, 30}, seconds : {<<>>, <<0>>, <<59>>}]

\* the semantic action of date
dateAction(year, month, day) == TimeParameter(Date(year, month, day))

\* luxon's DateTime.set: a DateTime is immutable, set returns another one
set(dateTime, hms) ==
    [dateTime EXCEPT !.date = <<@[1], @[2], @[3], hms.hours, hms.minutes, hms.seconds>>]

\* the semantic action of dateTime: the value of the TimeParameter of its
\* date, on which set is called without a use of what set returns
dateTimeAction(l) ==
    LET value == dateAction(l.year, l.month, l.day).time
        hms == [hours |-> l.hour, minutes |-> l.minute,
                seconds |-> IF l.seconds = <<>> THEN 0 ELSE l.seconds[1]]
        discarded == set(value, hms)
    IN value

\* getValue of ValueRangeParameter: null for an optional part that is not
\* written, else the number inside the nested arrays of its evaluation
getValue(x) == IF x = <<>> THEN null ELSE Js(x[1])

\* ValueRangeParameter = numeric ("to" numeric ("step" numeric)?)?
ValueRangeParameter(value, limit, increment) ==
    Parameter(null, Js(value), getValue(limit), getValue(increment), null, null, null)

\* MultiValueParameter = "[" numeric ("," numeric)* "]"
MultiValueParameter(values) == Parameter(null, null, null, null, Js(values), null, null)

stringParameter(stringValue) ==
    Parameter(null, null, null, null, null, null, Js(stringValue))

bool(boolValue) == Parameter(null, null, null, null, null, Js(boolValue), null)

\* MultiStringParameter has no semantic action and five children: the eval
\* operation throws on it
MissingSemanticActionError == "Missing semantic action for 'MultiStringParameter'"

\* Parameter = identifier ":" (ValueRangeParameter | MultiValueParameter |
\* MultiStringParameter | stringParameter | bool), on the written parameter l
ParameterAction(l) ==
    LET parameter ==
            CASE l.shape = "range" -> ValueRangeParameter(l.value, l.limit, l.increment)
              [] l.shape = "numbers" -> MultiValueParameter(l.values)
              [] l.shape = "string" -> stringParameter(l.string)
              [] l.shape = "bool" -> bool(l.bool)
    IN IF l.shape = "strings"
       THEN [error |-> MissingSemanticActionError, value |-> undefined]
       ELSE [error |-> NoError, value |-> [parameter EXCEPT !.name = l.name]]

\* Parameters = "{" Parameter ("," Parameter)* "}", on the written block
ParametersAction(block) ==
    IF \E i \in DOMAIN block : ParameterAction(block[i]).error # NoError
    THEN [error |-> MissingSemanticActionError, value |-> undefined]
    ELSE [error |-> NoError,
          value |-> Parameters([i \in DOMAIN block |-> ParameterAction(block[i]).value])]

\* the parameters that a block writes, one or more of each shape of the
\* grammar; limit and increment are <<>> when they are not written
ParameterLiterals ==
    { [shape |-> "range", name |-> "period", value |-> v, limit |-> l[1],
       increment |-> l[2]] :
        v \in {0, 14}, l \in {<< <<>>, <<>> >>, << <<20>>, <<>> >>, << <<20>>, <<2>> >>} }
    \cup [shape : {"numbers"}, name : {"periods"}, values : {<<0>>, <<5, 10>>}]
    \cup [shape : {"strings"}, name : {"modes"}, strings : {<<"long">>, <<"long", "short">>}]
    \cup [shape : {"string"}, name : {"mode"}, string : {"long", ""}]
    \cup [shape : {"bool"}, name : {"enabled"}, bool : BOOLEAN]

BlockLiterals ==
    [block : UNION {[1..n -> ParameterLiterals] : n \in 1..MaxBlock}]

-----------------------------------------------------------------------------
(* Inputs of the call specification *)

ES == Symbol("ES", FALSE)
NQ == Symbol("NQ", FALSE)
First == keyword(KeywordFIRST)
Last == keyword(KeywordLAST)
NewYear == TimeParameter(Date(2024, 1, 1))
PlusOneDay == Offset(1, "d")
MinusOneDay == Offset(-1, "d")
Momentum == String("momentum")
Period == Parameters(<<Parameter("period", Js(14), null, null, null, null, null)>>)
\* the value of the literal 2024-01-01 09:30
NewYearMorning ==
    dateTimeAction([year |-> 2024, month |-> 1, day |-> 1, hour |-> 9, minute |-> 30,
                    seconds |-> <<>>])

\* one value of every variant a call argument can evaluate to
ArgumentValues ==
    { numeric(5), numeric(0), keyword("true"), NewYear, First, keyword(KeywordNOW),
      timeFrame(30, "m"), PlusOneDay, MinusOneDay, ES, keyword(KeywordALL),
      SymbolArrayLiteral("ES", << <<",", "NQ">>, <<"|", "YM">> >>),
      Momentum, Period, ObjectConstructor, NewYearMorning }

\* a right-typed first argument, a time and a wrong-typed value
ArityValues == { ES, First, numeric(5) }

NoLiteral == [keyword |-> ""]

TimeFrameLiterals ==
    [digits : 1..MaxTimeFrameLiteral, unit : {"m", "h"}] \cup {[keyword |-> "daily"]}

EvalTimeFrame(l) ==
    IF "keyword" \in DOMAIN l THEN keyword(l.keyword) ELSE timeFrame(l.digits, l.unit)

SeqsUpTo(S, n) == UNION {[1..k -> S] : k \in 0..n}

\* the arguments that precede from / to, and those that precede the symbols
BeforeFromTo(name) == IF name = "backtest" THEN <<Momentum, ES>> ELSE <<ES>>

BeforeSymbols(name) == IF name = "backtest" THEN <<Momentum>> ELSE <<>>

CallInputs ==
    \* any number of arguments, right- and wrong-typed
    [command : HandlerNames, literal : {NoLiteral},
     callArguments : SeqsUpTo(ArityValues, MaxArityArgs)]
    \cup
    \* every pair of variants as from / to
    { [command |-> c, literal |-> NoLiteral,
       callArguments |-> BeforeFromTo(c) \o <<f, t>>] :
         c \in HandlerNames, f \in ArgumentValues, t \in ArgumentValues }
    \cup
    \* every variant as the symbol argument, alone or followed by from / to
    { [command |-> c, literal |-> NoLiteral,
       callArguments |-> BeforeSymbols(c) \o <<v>> \o rest] :
         c \in HandlerNames, v \in ArgumentValues,
         rest \in {<<>>, <<First, Last>>, <<NewYear, PlusOneDay>>} }
    \cup
    \* every time-frame literal as the fourth argument of candle and plot
    { [command |-> c, literal |-> l,
       callArguments |-> <<ES, First, Last, EvalTimeFrame(l)>>] :
         c \in {"candle", "plot"}, l \in TimeFrameLiterals }
    \cup
    \* every other variant in the time-frame position
    { [command |-> c, literal |-> NoLiteral,
       callArguments |-> <<ES, First, Last, v>>] :
         c \in {"candle", "plot"}, v \in ArgumentValues }

NotInvoked == [invoked |-> FALSE, result |-> Thrown(NoError)]


-----------------------------------------------------------------------------
(* ScriptingEngine *)

\* object[name] of JavaScript: an own property, else the property inherited
\* from Object.prototype, else undefined
GetProperty(object, name) ==
    IF name \in DOMAIN object THEN object[name]
    ELSE IF name \in ObjectPrototypeNames THEN ObjectConstructor
    ELSE undefined

SetProperty(object, name, value) ==
    [n \in DOMAIN object \cup {name} |-> IF n = name THEN value ELSE object[n]]

callHandlers == [n \in HandlerNames |-> [tag |-> "Handler", name |-> n]]

UnknownVariableError == "Unknown variable"
UnknownCallError == "Unknown call"
BackendError == "backend error"

Min(S) == CHOOSE i \in S : \A j \in S : i <= j

\* variant: the arguments are passed on as they were written
substituteVariablesSkipped(env, input) == [error |-> NoError, name |-> "", output |-> input]

\* error: NoError, or the throw at the first variable without a value;
\* output: the input with every Variable replaced by its value
substituteVariables(env, input) ==
    LET value(x) == GetProperty(env, x.name)
        unknown == {i \in DOMAIN input :
                        /\ input[i].tag = "Variable"
                        /\ (value(input[i]) = undefined \/ value(input[i]) = null)}
    IN IF unknown # {}
       THEN [error |-> UnknownVariableError, name |-> input[Min(unknown)].name,
             output |-> <<>>]
       ELSE [error |-> NoError, name |-> "",
             output |-> [i \in DOMAIN input |->
                            IF input[i].tag = "Variable" THEN value(input[i])
                            ELSE input[i]]]

\* bookkeeping: the variable lookups substituteVariables made for statement
\* k, each with whether the variable was a property of the object itself
Resolutions(env, input, k) ==
    LET RECURSIVE list(_)
        list(S) == IF S = {} THEN <<>>
                   ELSE <<[statement |-> k, name |-> input[Min(S)].name,
                           bound |-> input[Min(S)].name \in DOMAIN env,
                           value |-> GetProperty(env, input[Min(S)].name)]>>
                        \o list(S \ {Min(S)})
    IN list({i \in DOMAIN input : input[i].tag = "Variable"})

\* variant: a script matches when its first line is a Statement
ParsesFirstLine(script) == script = <<>> \/ script[1].kind # "Garbage"

\* grammar.match(script).succeeded(): every line is a Statement
Parses(script) == \A i \in DOMAIN script : script[i].kind # "Garbage"

\* match.getRightmostFailurePosition(), as the line it lies in: Program is
\* Statement*, so the match gets no further than the first line that is not a
\* Statement
getRightmostFailurePosition(script) ==
    Min({i \in DOMAIN script : script[i].kind = "Garbage"})

\* A call of run: the script, the statement the loop is at and the state of
\* the promise, with the bookkeeping the properties are stated on: the
\* variables before the call (before), the statements begun, the assignments
\* stored, the variables looked up, the handlers invoked with their
\* arguments, the requests sent and the number of charts rendered.
NewRun(script, env) ==
    [script |-> script, pc |-> 1, status |-> "running", error |-> NoError,
     failedAt |-> 0, position |-> 0, inflight |-> 0, detail |-> TRUE, before |-> env,
     begun |-> <<>>, assigned |-> <<>>, resolved |-> <<>>, invoked |-> <<>>,
     sent |-> <<>>, rendered |-> 0, stored |-> storage, entries |-> history]

Settled == {"resolved", "rejected"}

\* the bookkeeping of a settled run is dropped at the next step
Forget(rs) ==
    [i \in DOMAIN rs |->
        IF rs[i].status \in Settled
        THEN [rs[i] EXCEPT !.script = <<>>, !.detail = FALSE, !.before = <<>>,
                           !.position = 0, !.stored = <<>>, !.entries = <<>>,
                           !.assigned = <<>>, !.resolved = <<>>, !.invoked = <<>>,
                           !.sent = <<>>, !.rendered = 0]
        ELSE rs[i]]

\* variant: the error is recorded and the loop goes on
FailSwallowed(run, error) ==
    [run EXCEPT !.error = error, !.failedAt = run.pc, !.pc = run.pc + 1]

\* variant: a throw leaves the promise of run pending
FailPending(run, error) ==
    [run EXCEPT !.status = "pending", !.error = error, !.failedAt = run.pc,
                !.inflight = 0]

\* a throw inside run: the promise rejects, the loop is left
Fail(run, error) ==
    [run EXCEPT !.status = "rejected", !.error = error, !.failedAt = run.pc,
                !.inflight = 0]

\* variant: the handler's promise is not awaited
AwaitWithoutSuspending(run) == [run EXCEPT !.pc = run.pc + 1, !.inflight = run.pc]

\* await handler(callArguments) on a handler that sent its request
Await(run) == [run EXCEPT !.status = "awaiting", !.inflight = run.pc]

\* the loop moves on to the next statement
Continue(run) == [run EXCEPT !.status = "running", !.pc = run.pc + 1, !.inflight = 0]

\* variant: the variable holds what was written, a reference to the other
\* variable
ExecuteAssignmentByReference(run, env, statement) ==
    [run |-> Continue([run EXCEPT
                 !.begun = Append(@, run.pc),
                 !.assigned = Append(@, [statement |-> run.pc,
                                         name |-> statement.name,
                                         value |-> statement.args[1]])]),
     variables |-> SetProperty(env, statement.name, statement.args[1])]

ExecuteAssignment(run, env, statement) ==
    LET values == substituteVariables(env, statement.args)
        started == [run EXCEPT !.begun = Append(@, run.pc)]
    IN IF values.error # NoError
       THEN [run |-> Fail(started, values.error), variables |-> env]
       ELSE [run |-> Continue([started EXCEPT
                        !.resolved = @ \o Resolutions(env, statement.args, run.pc),
                        !.assigned = Append(@, [statement |-> run.pc,
                                                name |-> statement.name,
                                                value |-> values.output[1]])]),
             variables |-> SetProperty(env, statement.name, values.output[1])]

ExecuteCall(run, env, statement) ==
    LET handler == GetProperty(callHandlers, statement.name)
        values == substituteVariables(env, statement.args)
        started == [run EXCEPT !.begun = Append(@, run.pc)]
        called == [started EXCEPT
                     !.resolved = @ \o Resolutions(env, statement.args, run.pc),
                     !.invoked = Append(@, [statement |-> run.pc,
                                            name |-> statement.name,
                                            args |-> values.output])]
        result == Handler(statement.name, values.output)
    IN IF handler = undefined \/ handler = null
       THEN [run |-> Fail(started, UnknownCallError), variables |-> env]
       ELSE IF values.error # NoError
       THEN [run |-> Fail(started, values.error), variables |-> env]
       ELSE IF handler = ObjectConstructor
       \* Object(callArguments) returns its argument: nothing to wait for
       THEN [run |-> Continue(called), variables |-> env]
       ELSE IF result.error # NoError
       THEN [run |-> Fail(called, result.error), variables |-> env]
       ELSE [run |-> Await([called EXCEPT
                        !.sent = Append(@, [statement |-> run.pc,
                                            url |-> result.url,
                                            request |-> result.request])]),
             variables |-> env]

\* variant: a call statement leaves an empty environment behind
ExecuteStatementClearing(run, env) ==
    LET statement == run.script[run.pc]
    IN IF statement.kind = "Assignment"
       THEN ExecuteAssignment(run, env, statement)
       ELSE [run |-> ExecuteCall(run, env, statement).run, variables |-> <<>>]

ExecuteStatement(run, env) ==
    LET statement == run.script[run.pc]
    IN IF statement.kind = "Assignment"
       THEN ExecuteAssignment(run, env, statement)
       ELSE ExecuteCall(run, env, statement)

\* run(script) up to the loop: the script is matched against the grammar
EngineRun(script) ==
    /\ active = 0
    /\ LET run == NewRun(script, variables)
       IN IF Parses(script)
          THEN /\ runs' = Append(Forget(runs), run)
               /\ active' = Len(runs) + 1
          ELSE /\ runs' = Append(Forget(runs),
                                 [Fail(run, ParseError) EXCEPT
                                     !.failedAt = 0,
                                     !.position = getRightmostFailurePosition(script)])
               /\ active' = 0
    /\ UNCHANGED variables

\* one iteration of the loop of run
EngineExecute(id) ==
    /\ active = id
    /\ runs[id].status = "running"
    /\ runs[id].pc <= Len(runs[id].script)
    /\ LET step == ExecuteStatement(runs[id], variables)
       IN /\ runs' = [Forget(runs) EXCEPT ![id] = step.run]
          /\ variables' = step.variables
          /\ active' = IF step.run.status = "running" THEN id ELSE 0

\* the loop ends: the promise of run resolves
EngineReturn(id) ==
    /\ active = id
    /\ runs[id].status = "running"
    /\ runs[id].pc > Len(runs[id].script)
    /\ runs' = [Forget(runs) EXCEPT ![id].status = "resolved"]
    /\ active' = 0
    /\ UNCHANGED variables

\* the backend answers the request of the handler run id awaits: the handler
\* renders its chart and returns, or it rejects
EngineSettle(id, ok) ==
    /\ active = 0
    /\ runs[id].status = "awaiting"
    /\ IF ok
       THEN /\ runs' = [Forget(runs) EXCEPT
                            ![id] = Continue([@ EXCEPT !.rendered = @ + 1])]
            /\ active' = id
       ELSE /\ runs' = [Forget(runs) EXCEPT ![id] = Fail(@, BackendError)]
            /\ active' = 0
    /\ UNCHANGED variables

-----------------------------------------------------------------------------
(* Serialization of the variables (KVIN).  The prepared form of an object  *)
(* names its constructor (ctr) and holds its own properties (ps); an       *)
(* object with a toKVIN method is prepared by that method (args).          *)

\* the constructors initializeSerialization registers in KVIN.userCtors
userCtors ==
    {"Variable", "Numeric", "Bool", "TimeParameter", "TimeFrame", "Offset",
     "Symbol", "SymbolArray", "String", "Parameter", "DateTime"}

\* luxon.DateTime.prototype.toKVIN
toKVIN(dateTime) == [ctr |-> "DateTime", args |-> <<toFormat(dateTime)>>]

\* KVIN.userCtors.DateTime: luxon.DateTime.fromISO of the text
fromISO(text) == [tag |-> "DateTime", date |-> text.date]

RECURSIVE prepare(_)
prepare(v) ==
    IF IsDateTime(v) THEN toKVIN(v)
    ELSE IF "tag" \notin DOMAIN v THEN v
    ELSE CASE v.tag \in {"number", "null"} -> v
           [] v.tag = "TimeParameter" ->
                [ctr |-> v.tag, ps |-> [time |-> prepare(v.time)]]
           [] v.tag = "SymbolArray" ->
                [ctr |-> v.tag,
                 ps |-> [symbols |-> [i \in DOMAIN v.symbols |-> prepare(v.symbols[i])]]]
           [] v.tag = "Parameters" ->
                [ctr |-> v.tag,
                 ps |-> [parameters |->
                            [i \in DOMAIN v.parameters |-> prepare(v.parameters[i])]]]
           [] OTHER ->
                [ctr |-> v.tag, ps |-> [f \in DOMAIN v \ {"tag"} |-> v[f]]]

\* the constructor names a prepared form refers to
RECURSIVE Constructors(_)
Constructors(p) ==
    IF "ctr" \notin DOMAIN p THEN {}
    ELSE {p.ctr} \cup
         CASE p.ctr = "TimeParameter" -> Constructors(p.ps.time)
           [] p.ctr = "SymbolArray" ->
                UNION {Constructors(p.ps.symbols[i]) : i \in DOMAIN p.ps.symbols}
           [] p.ctr = "Parameters" ->
                UNION {Constructors(p.ps.parameters[i]) : i \in DOMAIN p.ps.parameters}
           [] OTHER -> {}

\* new constructor(), then the properties of ps are assigned
construct(ctr, ps) ==
    [f \in DOMAIN ps \cup {"tag"} |-> IF f = "tag" THEN ctr ELSE ps[f]]

RECURSIVE unprepare(_)
unprepare(p) ==
    IF "ctr" \notin DOMAIN p THEN p
    ELSE CASE p.ctr = "DateTime" -> fromISO(p.args[1])
           [] p.ctr = "TimeParameter" ->
                construct(p.ctr, [time |-> unprepare(p.ps.time)])
           [] p.ctr = "SymbolArray" ->
                construct(p.ctr,
                          [symbols |-> [i \in DOMAIN p.ps.symbols |->
                                           unprepare(p.ps.symbols[i])]])
           [] p.ctr = "Parameters" ->
                construct(p.ctr,
                          [parameters |-> [i \in DOMAIN p.ps.parameters |->
                                              unprepare(p.ps.parameters[i])]])
           [] OTHER -> construct(p.ctr, p.ps)

UnknownConstructorError == "ReferenceError: constructor is not defined"

serializeVariables(env) == [n \in DOMAIN env |-> prepare(env[n])]

\* KVIN.deserialize: a constructor that is not registered is looked up by
\* its name in the global scope, where the classes of the engine module are
\* not defined
deserializeVariables(data) ==
    IF \A n \in DOMAIN data : Constructors(data[n]) \subseteq userCtors
    THEN [error |-> NoError, variables |-> [n \in DOMAIN data |-> unprepare(data[n])]]
    ELSE [error |-> UnknownConstructorError, variables |-> <<>>]

-----------------------------------------------------------------------------
(* Scripts *)

AssignSymbol == Assignment("x", ES)
AssignOtherSymbol == Assignment("x", NQ)
AssignTimeFrame == Assignment("x", timeFrame(30, "m"))
PlotVariable == Call("plot", <<Variable("x")>>)
PlotInherited == Call("plot", <<Variable("constructor")>>)
UnknownCall == Call("foo", <<Variable("y")>>)
AssignFrame == Assignment("t", timeFrame(30, "m"))
AssignCopy == Assignment("a", Variable("x"))
PlotCopy == Call("plot", <<Variable("a")>>)
PlotFrame == Call("plot", <<Variable("x"), First, Last, Variable("t")>>)

Lines == {AssignSymbol, AssignTimeFrame, PlotVariable, UnknownCall}

Scripts == SeqsUpTo(Lines, MaxStmts)

UiLines == {AssignSymbol, PlotVariable, Garbage}

UiScripts == SeqsUpTo(UiLines, MaxUiStmts)

\* the scripts of a session: one binds a variable twice and reads it after
\* each binding, one reads a name of Object.prototype
SessionScripts ==
    { <<AssignSymbol, PlotVariable, AssignOtherSymbol, PlotVariable, PlotVariable>>,
      <<PlotInherited>> }

-----------------------------------------------------------------------------
(* The engine on its own: run is called with any script at any time the   *)
(* event loop is idle.                                                     *)

InitUi ==
    /\ editors = <<[readOnly |-> FALSE, cssReadOnly |-> FALSE, value |-> <<>>]>>
    /\ editor = 1
    /\ history = <<>>
    /\ historyIndex = null
    /\ enableHistory = TRUE
    /\ storage = <<>>
    /\ toasts = 0

InitEngine ==
    /\ variables = <<>>
    /\ runs = <<>>
    /\ active = 0

Init ==
    /\ InitEngine
    /\ InitUi
    /\ command = "plot"
    /\ literal = NoLiteral
    /\ callArguments = <<>>
    /\ outcome = NotInvoked

Run(script) ==
    /\ Len(runs) < MaxRuns
    /\ EngineRun(script)
    /\ UNCHANGED <<uiVars, callVars>>

Execute(id) == EngineExecute(id) /\ UNCHANGED <<uiVars, callVars>>

Return(id) == EngineReturn(id) /\ UNCHANGED <<uiVars, callVars>>

HandlerSettles(id, ok) == EngineSettle(id, ok) /\ UNCHANGED <<uiVars, callVars>>

Next ==
    \/ \E script \in Scripts : Run(script)
    \/ \E id \in DOMAIN runs : Execute(id)
    \/ \E id \in DOMAIN runs : Return(id)
    \/ \E id \in DOMAIN runs, ok \in BOOLEAN : HandlerSettles(id, ok)

Spec == Init /\ [][Next]_vars

\* the scripts of the runs that are followed to their end: two requests in
\* a row, a call with written and variable arguments, a failure of a
\* handler, an unbound variable and an unknown call, a line that is not a
\* statement after two that are, nothing at all
SettlingScripts ==
    { <<AssignSymbol, PlotVariable, PlotVariable>>,
      <<AssignSymbol, AssignFrame, PlotFrame>>,
      <<AssignTimeFrame, PlotVariable, AssignSymbol>>,
      <<PlotVariable, UnknownCall>>,
      <<AssignOtherSymbol, PlotVariable, Garbage>>,
      <<>> }

RunSettling(script) ==
    /\ Len(runs) < MaxSettlingRuns
    /\ EngineRun(script)
    /\ UNCHANGED <<uiVars, callVars>>

NextSettling ==
    \/ \E script \in SettlingScripts : RunSettling(script)
    \/ \E id \in DOMAIN runs : Execute(id)
    \/ \E id \in DOMAIN runs : Return(id)
    \/ \E id \in DOMAIN runs, ok \in BOOLEAN : HandlerSettles(id, ok)

\* the scripts that copy a variable: $a = $x between two assignments of x,
\* then plot $a; a later use of $a; other assignments of x; the copy alone
CopyScripts ==
    { <<AssignSymbol, AssignCopy, AssignOtherSymbol, PlotCopy>>,
      <<AssignOtherSymbol, PlotCopy>>,
      <<AssignTimeFrame>>,
      <<AssignCopy>> }

RunCopy(script) ==
    /\ Len(runs) < MaxCopyRuns
    /\ EngineRun(script)
    /\ UNCHANGED <<uiVars, callVars>>

NextCopy ==
    \/ \E script \in CopyScripts : RunCopy(script)
    \/ \E id \in DOMAIN runs : Execute(id)
    \/ \E id \in DOMAIN runs : Return(id)
    \/ \E id \in DOMAIN runs, ok \in BOOLEAN : HandlerSettles(id, ok)

SpecCopy == Init /\ [][NextCopy]_vars

\* the engine where the event loop runs every continuation that is ready
\* (the loop of run between two awaits, and the return) and where every
\* request that was sent is answered
SpecSettling ==
    /\ Init
    /\ [][NextSettling]_vars
    /\ \A id \in 1..MaxSettlingRuns :
          /\ WF_vars(Execute(id))
          /\ WF_vars(Return(id))
          /\ WF_vars(id \in DOMAIN runs /\ \E ok \in BOOLEAN : HandlerSettles(id, ok))

-----------------------------------------------------------------------------
(* WebUi: the editors, the history and the persisted session state *)

NewEditor == [readOnly |-> FALSE, cssReadOnly |-> FALSE, value |-> <<>>]

\* enableEditor(enable) acts on this.editor
enableEditor(eds, current, enable) == [eds EXCEPT ![current].readOnly = ~enable]

\* the catch block of onEditorKeyDown
CatchEffects ==
    /\ toasts' = toasts + 1
    /\ editors' = enableEditor(editors, editor, TRUE)
    /\ UNCHANGED <<editor, history, historyIndex, enableHistory, storage>>

\* onEditorKeyDown, Enter without Shift, up to the call of run.  The text of
\* an editable editor is whatever the user left in it.
EnterKey(script, maxRuns) ==
    /\ Len(runs) < maxRuns
    /\ script = editors[editor].value \/ ~editors[editor].readOnly
    /\ EngineRun(script)
    /\ editors' = [editors EXCEPT ![editor].value = script,
                                  ![editor].readOnly = Parses(script)]
    /\ toasts' = IF Parses(script) THEN toasts ELSE toasts + 1
    /\ UNCHANGED <<editor, history, historyIndex, enableHistory, storage>>
    /\ UNCHANGED callVars

\* the run of onEditorKeyDown executes a statement; a throw ends in the catch block
Statement(id) ==
    /\ EngineExecute(id)
    /\ IF runs'[id].status = "rejected" THEN CatchEffects ELSE UNCHANGED uiVars
    /\ UNCHANGED callVars

\* run has returned: onEditorKeyDown goes on after its await
Completed(id) ==
    /\ EngineReturn(id)
    /\ storage' = [lastScript |-> runs[id].script,
                   variables |-> serializeVariables(variables)]
    /\ history' = Append(history, runs[id].script)
    /\ editors' = Append([editors EXCEPT ![editor].cssReadOnly = TRUE], NewEditor)
    /\ editor' = Len(editors) + 1
    /\ enableHistory' = TRUE
    /\ UNCHANGED <<historyIndex, toasts>>
    /\ UNCHANGED callVars

BackendResponse(id, ok) ==
    /\ EngineSettle(id, ok)
    /\ IF ok THEN UNCHANGED uiVars ELSE CatchEffects
    /\ UNCHANGED callVars

\* showHistory: the editor is cleared and given this.history[this.historyIndex]
showHistory(eds, current, entries, index) ==
    [eds EXCEPT ![current].value =
        IF index + 1 \in DOMAIN entries THEN entries[index + 1] ELSE <<>>]

\* incrementIndex of onEditorKeyUp
incrementIndex(index, direction, historyLast) ==
    LET moved == index + direction
        atLeast == IF moved > 0 THEN moved ELSE 0
    IN IF atLeast < historyLast THEN atLeast ELSE historyLast

KeyUp(key) ==
    /\ active = 0
    /\ LET historyLast == Len(history) - 1
       IN IF enableHistory /\ key = "ArrowUp"
          THEN LET index == IF historyIndex = null THEN historyLast
                            ELSE incrementIndex(historyIndex.js, -1, historyLast)
               IN /\ historyIndex' = Js(index)
                  /\ editors' = showHistory(editors, editor, history, index)
                  /\ UNCHANGED enableHistory
          ELSE IF enableHistory /\ key = "ArrowDown" /\ historyIndex # null
          THEN LET index == incrementIndex(historyIndex.js, 1, historyLast)
               IN /\ historyIndex' = Js(index)
                  /\ editors' = showHistory(editors, editor, history, index)
                  /\ UNCHANGED enableHistory
          ELSE IF key # "Enter"
          THEN /\ enableHistory' = FALSE
               /\ historyIndex' = null
               /\ UNCHANGED editors
          ELSE UNCHANGED <<enableHistory, historyIndex, editors>>
    /\ runs' = Forget(runs)
    /\ UNCHANGED <<variables, active, editor, history, storage, toasts>>
    /\ UNCHANGED callVars

Keys == {"ArrowUp", "ArrowDown", "Enter", "a"}

NextUi ==
    \/ \E script \in UiScripts : EnterKey(script, MaxUiRuns)
    \/ \E id \in DOMAIN runs : Statement(id)
    \/ \E id \in DOMAIN runs : Completed(id)
    \/ \E id \in DOMAIN runs, ok \in BOOLEAN : BackendResponse(id, ok)
    \/ \E key \in Keys : KeyUp(key)

SpecUi == Init /\ [][NextUi]_vars

NextSession ==
    \/ \E script \in SessionScripts : EnterKey(script, MaxSessionRuns)
    \/ \E id \in DOMAIN runs : Statement(id)
    \/ \E id \in DOMAIN runs : Completed(id)
    \/ \E id \in DOMAIN runs, ok \in BOOLEAN : BackendResponse(id, ok)
    \/ \E key \in Keys : KeyUp(key)

SpecSession == Init /\ [][NextSession]_vars

-----------------------------------------------------------------------------
(* Sessions: the page is loaded again and WebUi.initialize restores the    *)
(* persisted state into a new WebUi and a new ScriptingEngine.             *)

AssignParameters == Assignment("p", Period)

RestartScripts == { <<AssignSymbol, PlotVariable>>, <<AssignParameters>> }

\* WebUi.initialize on a page whose localStorage is the one left behind
Reload ==
    /\ LET data == IF storage = <<>> THEN <<>> ELSE storage.variables
           restored == deserializeVariables(data)
       IN variables' = IF restored.error = NoError THEN restored.variables ELSE <<>>
    /\ runs' = <<>>
    /\ active' = 0
    /\ editors' = <<[NewEditor EXCEPT !.value = IF storage = <<>> THEN <<>>
                                                ELSE storage.lastScript]>>
    /\ editor' = 1
    /\ history' = <<>>
    /\ historyIndex' = null
    /\ enableHistory' = TRUE
    /\ toasts' = 0
    /\ UNCHANGED storage
    /\ UNCHANGED callVars

NextRestart ==
    \/ \E script \in RestartScripts : EnterKey(script, MaxRestartRuns)
    \/ \E id \in DOMAIN runs : Statement(id)
    \/ \E id \in DOMAIN runs : Completed(id)
    \/ \E id \in DOMAIN runs, ok \in BOOLEAN : BackendResponse(id, ok)
    \/ \E key \in Keys : KeyUp(key)
    \/ Reload

SpecRestart == Init /\ [][NextRestart]_vars

-----------------------------------------------------------------------------
(* The store specification: the variables of an engine are serialized and  *)
(* the result is deserialized.                                             *)

StoreNames == {"x", "y"}

\* one value of every variant an assignment can bind
StoreValues ==
    { numeric(5), keyword("true"), NewYear, First, timeFrame(30, "m"), PlusOneDay,
      ES, SymbolArrayLiteral("ES", << <<",", "NQ">>, <<"|", "YM">> >>),
      Momentum, Period, NewYearMorning }

InitStore ==
    /\ \E names \in SUBSET StoreNames : variables \in [names -> StoreValues]
    /\ runs = <<>>
    /\ active = 0
    /\ InitUi
    /\ command = "plot"
    /\ literal = NoLiteral
    /\ callArguments = <<>>
    /\ outcome = NotInvoked

\* data.variables = this.engine.serializeVariables()
Serialize ==
    /\ storage = <<>>
    /\ storage' = [lastScript |-> <<>>, variables |-> serializeVariables(variables)]
    /\ UNCHANGED <<engineVars, callVars>>
    /\ UNCHANGED <<editors, editor, history, historyIndex, enableHistory, toasts>>

\* this.variables = KVIN.deserialize(data)
Deserialize ==
    /\ storage # <<>>
    /\ ~outcome.invoked
    /\ LET restored == deserializeVariables(storage.variables)
       IN /\ variables' = IF restored.error = NoError THEN restored.variables
                          ELSE variables
          /\ outcome' = [invoked |-> TRUE, result |-> Thrown(restored.error)]
    /\ UNCHANGED <<runs, active, uiVars, command, literal, callArguments>>

NextStore == Serialize \/ Deserialize

SpecStore == InitStore /\ [][NextStore]_vars

-----------------------------------------------------------------------------
(* The call specification: a handler applied to the arguments of one call *)

InitCall ==
    /\ \E input \in CallInputs :
          /\ command = input.command
          /\ literal = input.literal
          /\ callArguments = input.callArguments
    /\ outcome = NotInvoked
    /\ InitEngine
    /\ InitUi

\* await handler(callArguments), up to the handler's first await
InvokeHandler ==
    /\ ~outcome.invoked
    /\ outcome' = [invoked |-> TRUE, result |-> Handler(command, callArguments)]
    /\ UNCHANGED <<command, literal, callArguments>>
    /\ UNCHANGED <<engineVars, uiVars>>

NextCall == InvokeHandler

SpecCall == InitCall /\ [][NextCall]_vars

-----------------------------------------------------------------------------
(* The literal specification: the value of one literal written as the     *)
(* value of an assignment.                                                 *)

\* a SymbolArray literal is kept as its first symbol and the pairs of a
\* separator and a symbol that follow it
ArraySymbols == {"ES", "NQ", "YM"}

ArrayLiterals ==
    [first : ArraySymbols,
     others : SeqsUpTo({",", "|"} \X ArraySymbols, MaxSeparated)]

LiteralInputs ==
    [text : LiteralTexts] \cup DateTimeLiterals \cup ArrayLiterals \cup BlockLiterals

\* this.semantics(match).eval() on $x = literal, up to the value
Evaluate(l) ==
    IF "text" \in DOMAIN l THEN ValueOfText(l.text)
    ELSE IF "others" \in DOMAIN l
    THEN [error |-> NoError, value |-> SymbolArrayLiteral(l.first, l.others)]
    ELSE IF "block" \in DOMAIN l THEN ParametersAction(l.block)
    ELSE [error |-> NoError, value |-> dateTimeAction(l)]

InitLiteral ==
    /\ literal \in LiteralInputs
    /\ outcome = NotInvoked
    /\ command = "plot"
    /\ callArguments = <<>>
    /\ InitEngine
    /\ InitUi

EvaluateLiteral ==
    /\ ~outcome.invoked
    /\ outcome' = [invoked |-> TRUE, result |-> Evaluate(literal)]
    /\ UNCHANGED <<command, literal, callArguments>>
    /\ UNCHANGED <<engineVars, uiVars>>

NextLiteral == EvaluateLiteral

SpecLiteral == InitLiteral /\ [][NextLiteral]_vars

-----------------------------------------------------------------------------
(* Properties *)

\* C1: within one call of run the statements begin in source order, one at a
\* time, and a statement begins only when the handler invoked by the
\* statement before it, if any, has settled.
C1_StatementsInOrder ==
    [][\A id \in DOMAIN runs :
          LET old == runs[id]
              new == runs'[id]
          IN Len(new.begun) > Len(old.begun) =>
                /\ old.inflight = 0
                /\ new.begun = Append(old.begun, Len(old.begun) + 1)]_vars

\* a call's handler has settled and the statement after it has begun
C1_Witness ==
    \E id \in DOMAIN runs :
        /\ runs[id].detail
        /\ runs[id].rendered = 1
        /\ \E i \in DOMAIN runs[id].sent :
              /\ runs[id].sent[i].statement = 1
              /\ 2 \in {runs[id].begun[j] : j \in DOMAIN runs[id].begun}

\* C2: at most one call handler is in flight at any time, whatever the
\* sequence of Enter key events.
C2_OneHandlerInFlight ==
    Cardinality({id \in DOMAIN runs : runs[id].inflight # 0}) <= 1

\* C3: a run in which a statement failed is rejected, and from then on none
\* of its statements begins: no assignment is stored and no handler invoked.
C3_FailureStopsRun ==
    [][\A id \in DOMAIN runs :
          LET old == runs[id]
              new == runs'[id]
          IN /\ new.error # NoError => new.status = "rejected"
             /\ old.status = "rejected" =>
                   /\ new.status = "rejected"
                   /\ new.pc = old.pc
                   /\ new.begun = old.begun
                   /\ Len(new.assigned) <= Len(old.assigned)
                   /\ Len(new.invoked) <= Len(old.invoked)]_vars

\* a handler rejected at a statement that is not the script's last
C3_Witness ==
    \E id \in DOMAIN runs :
        /\ runs[id].detail
        /\ runs[id].status = "rejected"
        /\ runs[id].error = BackendError
        /\ runs[id].failedAt < Len(runs[id].script)

\* C4: when a run has failed at statement k, the variables are those from
\* before the run updated by the assignments among statements 1..k-1.
C4_EnvironmentAfterFailure ==
    \A id \in DOMAIN runs :
        LET run == runs[id]
            RECURSIVE updated(_, _)
            updated(env, i) ==
                IF i >= run.failedAt THEN env
                ELSE IF run.script[i].kind = "Assignment"
                     THEN updated(SetProperty(env, run.script[i].name,
                                              run.script[i].args[1]), i + 1)
                     ELSE updated(env, i + 1)
        IN (run.detail /\ run.status = "rejected" /\ run.failedAt >= 1) =>
              variables = updated(run.before, 1)

\* C5: a statement that went past the substitution of its variables read
\* only variables that have a binding.
C5_UnboundReferenceFails ==
    \A id \in DOMAIN runs :
        \A i \in DOMAIN runs[id].resolved : runs[id].resolved[i].bound

\* C6: a reference to a variable that an earlier statement of the same script
\* assigns resolves the value of the latest of those assignments.
C6_LatestAssignmentResolved ==
    \A id \in DOMAIN runs :
        \A i \in DOMAIN runs[id].resolved :
            LET read == runs[id].resolved[i]
                earlier == {j \in DOMAIN runs[id].assigned :
                               /\ runs[id].assigned[j].name = read.name
                               /\ runs[id].assigned[j].statement < read.statement}
                latest == CHOOSE j \in earlier : \A k \in earlier : k <= j
            IN earlier # {} => read.value = runs[id].assigned[latest].value

\* C7: a handler called with a number of arguments outside its range (candle
\* and plot 1..4, correlation 1..3, backtest 4..6) fails with the arity
\* error whatever the types of the arguments, and only then.
C7_ArityCheckedFirst ==
    outcome.invoked =>
        LET n == Len(callArguments)
            min == IF command = "backtest" THEN 4 ELSE 1
            max == CASE command = "backtest" -> 6
                     [] command = "correlation" -> 3
                     [] OTHER -> 4
        IN (outcome.result.error = ArityError) <=> (n < min \/ n > max)

\* plot with five arguments, the first of a wrong type, and a bare backtest
C7_Witness ==
    /\ outcome.invoked
    /\ outcome.result.error = ArityError
    /\ \/ /\ command = "plot"
          /\ Len(callArguments) = 5
          /\ callArguments[1] = numeric(5)
       \/ /\ command = "backtest"
          /\ callArguments = <<>>

\* C8: a (from, to) pair passes the time-range validation exactly when it is
\* (TimeParameter, TimeParameter), (TimeParameter, Offset) or
\* (Offset, TimeParameter).  The pair is the one the handler validates:
\* backtest validates its arguments as written, the other handlers validate
\* every written value but the number 0, which they replace beforehand.
C8_FromToPairs ==
    LET before == BeforeFromTo(command)
        n == Len(before)
    IN (/\ outcome.invoked
        /\ Len(callArguments) = n + 2
        /\ SubSeq(callArguments, 1, n) = before
        /\ \/ command = "backtest"
           \/ numeric(0) \notin {callArguments[n + 1], callArguments[n + 2]}) =>
          LET from == callArguments[n + 1]
              to == callArguments[n + 2]
              accepted == <<from.tag, to.tag>> \in
                             { <<"TimeParameter", "TimeParameter">>,
                               <<"TimeParameter", "Offset">>,
                               <<"Offset", "TimeParameter">> }
          IN /\ accepted => outcome.result.error = NoError
             /\ ~accepted => outcome.result.error = FromToError

\* two offsets are rejected, an offset before a date is accepted
C8_Witness ==
    /\ outcome.invoked
    /\ command = "backtest"
    /\ \/ /\ callArguments = <<Momentum, ES, MinusOneDay, PlusOneDay>>
          /\ outcome.result.error = FromToError
       \/ /\ callArguments = <<Momentum, ES, MinusOneDay, NewYear>>
          /\ outcome.result.error = NoError

\* C9: candle and plot accept their time-frame argument exactly when it is a
\* TimeFrame of 1 to 1440 minutes, an hour literal counting 60 minutes per
\* hour and daily being a TimeFrame.
C9_TimeFrameRange ==
    (/\ outcome.invoked
     /\ command \in {"candle", "plot"}
     /\ Len(callArguments) = 4
     /\ SubSeq(callArguments, 1, 3) = <<ES, First, Last>>) =>
        LET accepted == outcome.result.error = NoError
            minutes == IF literal.unit = "h" THEN literal.digits * 60
                       ELSE literal.digits
        IN /\ ~accepted => outcome.result.error = TimeFrameError
           /\ IF literal = NoLiteral
              THEN callArguments[4].tag # "TimeFrame" => ~accepted
              ELSE IF literal = [keyword |-> "daily"] THEN accepted
              ELSE accepted <=> (1 <= minutes /\ minutes <= 1440)

\* C10: the symbol argument of plot, correlation and backtest is accepted
\* exactly when it is a Symbol or a SymbolArray of Symbols, that of candle
\* exactly when it is a Symbol; any other value fails with a type error.
C10_SymbolArgument ==
    LET before == BeforeSymbols(command)
        n == Len(before)
    IN (/\ outcome.invoked
        /\ Len(callArguments) = n + 3
        /\ SubSeq(callArguments, 1, n) = before
        /\ SubSeq(callArguments, n + 2, n + 3) = <<NewYear, PlusOneDay>>) =>
          LET symbols == callArguments[n + 1]
              accepted ==
                  \/ symbols.tag = "Symbol"
                  \/ /\ command # "candle"
                     /\ symbols.tag = "SymbolArray"
                     /\ \A i \in DOMAIN symbols.symbols :
                           symbols.symbols[i].tag = "Symbol"
          IN /\ accepted => outcome.result.error = NoError
             /\ ~accepted => outcome.result.error \in
                                {SymbolTypeError, SymbolArrayTypeError}

\* C11: a candle, plot or correlation call with trailing arguments omitted
\* has the outcome (error, or url and request) of the call in which first,
\* last and daily are written in the omitted positions.
C11_DefaultsAsWritten ==
    LET max == IF command = "correlation" THEN 3 ELSE 4
        n == Len(callArguments)
        written == <<keyword(KeywordFIRST), keyword(KeywordLAST), keyword("daily")>>
    IN (/\ outcome.invoked
        /\ command \in {"candle", "plot", "correlation"}
        /\ 1 <= n /\ n < max) =>
          /\ outcome.result = Handler(command, callArguments \o SubSeq(written, n, max - 1))
          /\ outcome.result.error = NoError =>
                /\ n < 2 => outcome.result.request.from
                               = getJsonValue(TimeParameter(Keyword(KeywordFIRST)))
                /\ n < 3 => outcome.result.request.to
                               = getJsonValue(TimeParameter(Keyword(KeywordLAST)))
                /\ command # "correlation" =>
                      outcome.result.request.timeFrame = JsonNumber(1440)

\* plot with only its symbol sends the request with all three defaults
C11_Witness ==
    /\ outcome.invoked
    /\ command = "plot"
    /\ callArguments = <<ES>>
    /\ outcome.result.error = NoError
    /\ outcome.result.request.timeFrame = JsonNumber(1440)
    /\ outcome.result.request.from.specialKeyword = JsonString(KeywordFIRST)

\* C12: deserializing the serialized variables yields the same names, each
\* bound to a value of the same variant and payload.
C12_RoundTrip ==
    [][(storage # <<>> /\ ~outcome.invoked /\ outcome'.invoked) =>
          /\ outcome'.result.error = NoError
          /\ variables' = variables]_vars

\* C13: right after a run has resolved the persisted state holds its script
\* and the serialization of the variables; in a session that has started
\* from a persisted state and has not run anything yet the variables are the
\* persisted ones, and the editor holds the persisted script as long as no
\* key but Enter has been released in it.
C13_PersistedAndRestored ==
    /\ \A id \in DOMAIN runs :
          (runs[id].detail /\ runs[id].status = "resolved") =>
             /\ storage.lastScript = runs[id].script
             /\ storage.variables = serializeVariables(variables)
    /\ (runs = <<>> /\ storage # <<>>) =>
          /\ serializeVariables(variables) = storage.variables
          /\ (enableHistory /\ historyIndex = null) =>
                editors[editor].value = storage.lastScript

\* C14: a handler that sends a request was called with a number of arguments
\* in its range and with arguments (a missing one, or a number 0 in an
\* optional position, counted as its default) that pass every check of the
\* command; a handler that fails sends no request.
C14_RequestAfterValidation ==
    outcome.invoked =>
        LET args == callArguments
            n == Len(args)
            written(i) == i <= n /\ args[i] # numeric(0)
            tagAt(i, default) == IF written(i) THEN args[i].tag ELSE default
            symbols(i) ==
                \/ args[i].tag = "Symbol"
                \/ /\ command # "candle"
                   /\ args[i].tag = "SymbolArray"
                   /\ \A j \in DOMAIN args[i].symbols : args[i].symbols[j].tag = "Symbol"
            pair(from, to) ==
                <<from, to>> \in { <<"TimeParameter", "TimeParameter">>,
                                   <<"TimeParameter", "Offset">>,
                                   <<"Offset", "TimeParameter">> }
            valid ==
                CASE command \in {"candle", "plot"} ->
                        /\ 1 <= n /\ n <= 4
                        /\ symbols(1)
                        /\ pair(tagAt(2, "TimeParameter"), tagAt(3, "TimeParameter"))
                        /\ written(4) => /\ args[4].tag = "TimeFrame"
                                         /\ args[4].minutes \in 1..1440
                  [] command = "correlation" ->
                        /\ 1 <= n /\ n <= 3
                        /\ symbols(1)
                        /\ pair(tagAt(2, "TimeParameter"), tagAt(3, "TimeParameter"))
                  [] command = "backtest" ->
                        /\ 4 <= n /\ n <= 6
                        /\ args[1].tag = "String"
                        /\ symbols(2)
                        /\ pair(args[3].tag, args[4].tag)
                        /\ tagAt(5, "Parameters") = "Parameters"
                        /\ tagAt(6, "String") = "String"
        IN /\ outcome.result.url # "" => valid
           /\ outcome.result.error # NoError =>
                 /\ outcome.result.url = ""
                 /\ outcome.result.request = JsonNull

\* a plot call with a time frame out of range has failed without a request,
\* a backtest call with valid arguments has sent one
C14_Witness ==
    /\ outcome.invoked
    /\ \/ /\ command = "plot"
          /\ literal = [digits |-> 1441, unit |-> "m"]
          /\ outcome.result.error = TimeFrameError
          /\ outcome.result.url = ""
       \/ /\ command = "backtest"
          /\ callArguments = <<Momentum, ES, NewYear, PlusOneDay>>
          /\ outcome.result.url = "/backtest"

\* C15: when the event loop runs what is ready and every request is answered,
\* every run that has not settled settles: it resolves past its last statement or rejects at a
\* statement (or at the parse); and a run that awaits a handler stays as it
\* is, at the same statement, in every step except the settling of that
\* handler.
C15_RunSettles ==
    /\ \A id \in 1..MaxSettlingRuns :
          (id \in DOMAIN runs /\ runs[id].status \notin Settled) ~>
              /\ id \in DOMAIN runs
              /\ runs[id].detail
              /\ \/ /\ runs[id].status = "resolved"
                    /\ runs[id].pc = Len(runs[id].script) + 1
                 \/ /\ runs[id].status = "rejected"
                    /\ runs[id].failedAt <= Len(runs[id].script)
                    /\ runs[id].error # NoError
    /\ [][\A id \in DOMAIN runs :
            runs[id].status = "awaiting" /\ runs'[id] # runs[id] =>
                \E ok \in BOOLEAN : HandlerSettles(id, ok)]_vars

\* a run has awaited a handler, gone on after its response and resolved
C15_Witness ==
    \E id \in DOMAIN runs :
        /\ runs[id].detail
        /\ runs[id].status = "resolved"
        /\ runs[id].rendered >= 1

\* C16: the arguments a handler was invoked with are as many as the call
\* statement has, none of them is a Variable, a written value is at its
\* place unchanged and a variable is replaced at its place by the value the
\* lookup of its name gave.
C16_ArgumentsResolved ==
    \A id \in DOMAIN runs :
        runs[id].detail =>
            \A k \in DOMAIN runs[id].invoked :
                LET call == runs[id].invoked[k]
                    written == runs[id].script[call.statement].args
                    isVariable(v) == "tag" \in DOMAIN v /\ v.tag = "Variable"
                IN /\ Len(call.args) = Len(written)
                   /\ \A i \in DOMAIN written :
                         /\ ~isVariable(call.args[i])
                         /\ IF isVariable(written[i])
                            THEN \E j \in DOMAIN runs[id].resolved :
                                    /\ runs[id].resolved[j].statement = call.statement
                                    /\ runs[id].resolved[j].name = written[i].name
                                    /\ runs[id].resolved[j].value = call.args[i]
                            ELSE call.args[i] = written[i]

\* plot was invoked for plot $x, first, last, $t with the values of both
\* variables around the two written keywords
C16_Witness ==
    \E id \in DOMAIN runs :
        /\ runs[id].detail
        /\ \E k \in DOMAIN runs[id].invoked :
              /\ runs[id].script[runs[id].invoked[k].statement] = PlotFrame
              /\ runs[id].invoked[k].args = <<ES, First, Last, timeFrame(30, "m")>>

\* C17: a step that changes the environment is the execution of an
\* Assignment statement of the running script, and it changes the binding of
\* that statement's variable only; so a Call statement (unknown name,
\* unbound argument, handler failing or sending its request), the response
\* to a request and a script that does not parse leave every binding as it
\* was.
C17_OnlyAssignmentsBind ==
    [][variables' # variables =>
          \E id \in DOMAIN runs :
              /\ active = id
              /\ runs[id].status = "running"
              /\ runs[id].pc <= Len(runs[id].script)
              /\ LET statement == runs[id].script[runs[id].pc]
                 IN /\ statement.kind = "Assignment"
                    /\ DOMAIN variables' = DOMAIN variables \cup {statement.name}
                    /\ \A n \in DOMAIN variables \ {statement.name} :
                          variables'[n] = variables[n]]_vars

\* with x bound to ES and never to NQ, a call has failed in one run and a
\* script has failed to parse in another
C17_Witness ==
    /\ "x" \in DOMAIN variables
    /\ variables["x"] = ES
    /\ \E id \in DOMAIN runs : runs[id].status = "rejected" /\ runs[id].error = ParseError
    /\ \E id \in DOMAIN runs :
          /\ runs[id].status = "rejected"
          /\ runs[id].error \in {UnknownCallError, BackendError}

\* C18: a run that has failed at a Call statement whose command is not in
\* the handler table and one of whose arguments is a variable without a
\* value has failed with the unknown-variable error.
C18_ArgumentsBeforeLookup ==
    \A id \in DOMAIN runs :
        LET run == runs[id]
            absent(v) == v = undefined \/ v = null
        IN /\ run.detail
           /\ run.status = "rejected"
           /\ run.failedAt \in DOMAIN run.script
           /\ run.script[run.failedAt].kind = "Call"
           /\ absent(GetProperty(callHandlers, run.script[run.failedAt].name))
           /\ \E i \in DOMAIN run.script[run.failedAt].args :
                 /\ run.script[run.failedAt].args[i].tag = "Variable"
                 /\ absent(GetProperty(variables, run.script[run.failedAt].args[i].name))
           => run.error = UnknownVariableError

\* C19: the run of a script with a line that is not a statement has rejected
\* with the parse error and the position of that line, has begun no
\* statement, invoked no handler, sent no request and bound no variable: the
\* environment is the one the run started with.
C19_ParseFailureFirst ==
    \A id \in DOMAIN runs :
        LET run == runs[id]
            unmatched == {i \in DOMAIN run.script : run.script[i].kind = "Garbage"}
        IN run.detail /\ unmatched # {} =>
              /\ run.status = "rejected"
              /\ run.error = ParseError
              /\ run.position \in unmatched
              /\ \A i \in unmatched : run.position <= i
              /\ run.begun = <<>>
              /\ run.assigned = <<>>
              /\ run.invoked = <<>>
              /\ run.sent = <<>>
              /\ variables = run.before

\* the script $x = NQ; plot $x; (no statement) has been run where x was
\* bound to ES, and x is still ES
C19_Witness ==
    \E id \in DOMAIN runs :
        /\ runs[id].detail
        /\ runs[id].script = <<AssignOtherSymbol, PlotVariable, Garbage>>
        /\ runs[id].error = ParseError
        /\ runs[id].position = 3
        /\ "x" \in DOMAIN variables
        /\ variables["x"] = ES

\* C20: no Offset gets a JSON value: a request that a handler has sent
\* holds no magnitude and no unit of an Offset in its from and to, and a
\* call that has an Offset as from or to has sent no request.
C20_OffsetHasNoJsonValue ==
    outcome.invoked /\ outcome.result.url # "" =>
        /\ outcome.result.request.from.offset = JsonNull
        /\ outcome.result.request.from.offsetUnit = JsonNull
        /\ outcome.result.request.to.offset = JsonNull
        /\ outcome.result.request.to.offsetUnit = JsonNull
        /\ \A i \in DOMAIN callArguments : callArguments[i].tag # "Offset"

\* C21: a date-time literal has evaluated to the TimeParameter of the year,
\* month, day, hour, minute and second it writes (second 0 when it writes
\* none), which validateFromTo accepts as from next to the keyword last.
C21_DateTimeLiteral ==
    outcome.invoked /\ "hour" \in DOMAIN literal =>
        /\ outcome.result.error = NoError
        /\ outcome.result.value.tag = "TimeParameter"
        /\ outcome.result.value =
              TimeParameter([tag |-> "DateTime",
                             date |-> <<literal.year, literal.month, literal.day,
                                        literal.hour, literal.minute,
                                        IF literal.seconds = <<>> THEN 0
                                        ELSE literal.seconds[1]>>])
        /\ validateFromTo(outcome.result.value, Last) = NoError

\* C22: a text that the numeric rule matches in full (an optional minus
\* sign, an integer part without leading zero, an optional fraction) has
\* evaluated, as the value of an assignment, to a Numeric holding the number
\* it writes: the number times 10 to the count of fraction digits is the
\* integer the digits write.
C22_NumericLiteral ==
    /\ outcome.invoked
    /\ "text" \in DOMAIN literal
    /\ numericRule(literal.text) = Len(literal.text)
    => /\ outcome.result.error = NoError
       /\ outcome.result.value.tag = "Numeric"
       /\ LET written == SelectSeq(literal.text, LAMBDA c : c # ".")
              scale == IF "." \in {literal.text[i] : i \in DOMAIN literal.text}
                       THEN 10 ^ fractionalRule(Drop(literal.text,
                                                     numericFirstRule(literal.text)))
                       ELSE 1
          IN outcome.result.value.number * scale = parseFloat(written)

\* C23: a SymbolArray literal has evaluated to a SymbolArray of as many
\* Symbols as it writes, in the order it writes them; the first has
\* separator false, and a later one has separator true exactly when the
\* separator written before it is "|".
C23_SeparatorFlags ==
    outcome.invoked /\ "others" \in DOMAIN literal =>
        /\ outcome.result.error = NoError
        /\ outcome.result.value.tag = "SymbolArray"
        /\ LET elements == outcome.result.value.symbols
           IN /\ Len(elements) = Len(literal.others) + 1
              /\ \A i \in DOMAIN elements : elements[i].tag = "Symbol"
              /\ elements[1].symbol = literal.first
              /\ ~elements[1].separator
              /\ \A i \in DOMAIN literal.others :
                    /\ elements[i + 1].symbol = literal.others[i][2]
                    /\ elements[i + 1].separator <=> literal.others[i][1] = "|"

\* [ES, NQ | YM] has evaluated to ES, NQ and the flagged YM
C23_Witness ==
    /\ outcome.invoked
    /\ literal = [first |-> "ES", others |-> << <<",", "NQ">>, <<"|", "YM">> >>]
    /\ outcome.result.value =
          SymbolArray(<<Symbol("ES", FALSE), Symbol("NQ", FALSE), Symbol("YM", TRUE)>>)

\* C24: a parameter block has evaluated to Parameters with one Parameter for
\* each parameter it writes, in order; each has the written name and exactly
\* the payload of its shape: value (with limit and increment when, and only
\* when, they are written) for a scalar or a range, values for a list of
\* numbers, stringValue for a string, boolValue for a boolean, one payload
\* for a list of strings; every other payload field is null.
C24_ParameterShapes ==
    outcome.invoked /\ "block" \in DOMAIN literal =>
        /\ outcome.result.error = NoError
        /\ outcome.result.value.tag = "Parameters"
        /\ Len(outcome.result.value.parameters) = Len(literal.block)
        /\ \A i \in DOMAIN literal.block :
              LET p == outcome.result.value.parameters[i]
                  l == literal.block[i]
                  populated == {f \in {"value", "limit", "increment", "values",
                                       "boolValue", "stringValue"} : p[f] # null}
              IN /\ p.tag = "Parameter"
                 /\ p.name = l.name
                 /\ CASE l.shape = "range" ->
                            populated = {"value"}
                                \cup (IF l.limit # <<>> THEN {"limit"} ELSE {})
                                \cup (IF l.increment # <<>> THEN {"increment"} ELSE {})
                      [] l.shape = "numbers" -> populated = {"values"}
                      [] l.shape = "string" -> populated = {"stringValue"}
                      [] l.shape = "bool" -> populated = {"boolValue"}
                      [] l.shape = "strings" -> Cardinality(populated) = 1

\* C25: the step that executes an assignment $a = $b with b bound gives a
\* the value b has before the step; a step changes the value of a variable
\* only by executing an assignment to that variable; and plot $a, after
\* $x = ES, $a = $x, $x = NQ in the same script, is invoked with ES.
C25_CopyByValue ==
    [][LET executing(id) ==
               /\ active = id
               /\ runs[id].status = "running"
               /\ runs[id].pc <= Len(runs[id].script)
               /\ runs[id].script[runs[id].pc].kind = "Assignment"
           target(id) == runs[id].script[runs[id].pc].name
           written(id) == runs[id].script[runs[id].pc].args[1]
       IN /\ \A id \in DOMAIN runs :
                /\ executing(id)
                /\ written(id).tag = "Variable"
                /\ written(id).name \in DOMAIN variables
                => /\ target(id) \in DOMAIN variables'
                   /\ variables'[target(id)] = variables[written(id).name]
          /\ \A n \in DOMAIN variables :
                n \notin DOMAIN variables' \/ variables'[n] # variables[n] =>
                    \E id \in DOMAIN runs : executing(id) /\ target(id) = n
          /\ \A id \in DOMAIN runs :
                runs[id].detail =>
                    \A k \in DOMAIN runs[id].invoked :
                        /\ runs[id].script =
                              <<AssignSymbol, AssignCopy, AssignOtherSymbol, PlotCopy>>
                        /\ runs[id].invoked[k].statement = 4
                        => runs[id].invoked[k].args = <<ES>>]_vars

\* a holds ES, copied from x, while x holds NQ, and plot $a was invoked with
\* ES
C25_Witness ==
    /\ DOMAIN variables = {"a", "x"}
    /\ variables["a"] = ES
    /\ variables["x"] = NQ
    /\ \E id \in DOMAIN runs :
          /\ runs[id].detail
          /\ \E k \in DOMAIN runs[id].invoked :
                /\ runs[id].script[runs[id].invoked[k].statement] = PlotCopy
                /\ runs[id].invoked[k].args = <<ES>>

\* C26: when a run has failed, the persisted session state and the command
\* history are the ones of the moment the run was started.
C26_FailureLeavesSession ==
    \A id \in DOMAIN runs :
        runs[id].detail /\ runs[id].status = "rejected" =>
            /\ storage = runs[id].stored
            /\ history = runs[id].entries

\* C27: in a request that a handler has sent, from and to each have exactly
\* one group populated: date, or specialKeyword, or offset together with
\* offsetUnit; the fields of the other groups are null, and the group is the
\* one of the argument: date for a TimeParameter of a DateTime,
\* specialKeyword for one of a keyword, offset and offsetUnit for an Offset.
C27_OneGroupPopulated ==
    outcome.invoked /\ outcome.result.url # "" =>
        \A field \in {"from", "to"} :
            LET json == outcome.result.request[field]
                populated == {f \in DOMAIN json : json[f] # JsonNull}
                position == (IF command = "backtest" THEN 2 ELSE 1)
                                + (IF field = "from" THEN 1 ELSE 2)
                default == IF field = "from" THEN First ELSE Last
                argument == IF position <= Len(callArguments)
                               /\ callArguments[position] # numeric(0)
                            THEN callArguments[position]
                            ELSE default
            IN /\ DOMAIN json = {"date", "offset", "offsetUnit", "specialKeyword"}
               /\ populated \in {{"date"}, {"specialKeyword"}, {"offset", "offsetUnit"}}
               /\ populated =
                     IF argument.tag = "Offset" THEN {"offset", "offsetUnit"}
                     ELSE IF IsDateTime(argument.time) THEN {"date"}
                     ELSE {"specialKeyword"}

\* plot ES, 2024-01-01, +1d has sent a date as from and an offset of one
\* day as to
C27_Witness ==
    /\ outcome.invoked
    /\ command = "plot"
    /\ callArguments = <<ES, NewYear, PlusOneDay>>
    /\ outcome.result.url = "/history"
    /\ outcome.result.request.from.date # JsonNull
    /\ outcome.result.request.to.offset = JsonNumber(1)
    /\ outcome.result.request.to.offsetUnit = JsonString("d")

\* C28: the symbols of a request that a handler has sent are an array whose
\* items are strings.
C28_SymbolsFlat ==
    outcome.invoked /\ outcome.result.url # "" =>
        /\ outcome.result.request.symbols.json = "array"
        /\ \A i \in DOMAIN outcome.result.request.symbols.items :
              outcome.result.request.symbols.items[i].json = "string"

\* C29: historyIndex is null or an index of an entry of the history:
\* 0 <= historyIndex < history.length.
C29_HistoryIndexInRange ==
    historyIndex # null =>
        /\ 0 <= historyIndex.js
        /\ historyIndex.js < Len(history)

\* C30: at most one editor is editable; the editor of a run that is in
\* flight is read-only; when a run has failed, the editor it was started
\* from is editable; when a run has succeeded, the editor it was started
\* from is read-only and the editor after it is the one editable editor.
C30_OneEditableEditor ==
    /\ Cardinality({i \in DOMAIN editors : ~editors[i].readOnly}) <= 1
    /\ \A id \in DOMAIN runs :
          LET from == Len(runs[id].entries) + 1
          IN runs[id].detail =>
                CASE runs[id].status \in {"running", "awaiting"} ->
                        editors[from].readOnly
                  [] runs[id].status = "rejected" -> ~editors[from].readOnly
                  [] runs[id].status = "resolved" ->
                        /\ editors[from].readOnly
                        /\ from + 1 \in DOMAIN editors
                        /\ ~editors[from + 1].readOnly

====
